---- MODULE Spec2Model ----
(***************************************************************************)
(* Model of the MCP orchestrator's stage execution / retry / validation    *)
(* control loop (src/src/orchestrator.js, MCPOrchestrator.executeTaskLoop) *)
(* together with the planner that builds the step list and the validation  *)
(* gate (src/src/mcp-4-validator.js) that decides approval.                *)
(*                                                                         *)
(* The collaborators awaited by the loop (analyzer.execute, tester.test,   *)
(* tester.diagnose, analyzer.applyFix, documentor.document) are modelled   *)
(* by their outcome as seen at the call site: they return or they throw,   *)
(* and the fields the loop reads are drawn from small sets.  The gate is   *)
(* modelled by its code.                                                   *)
(*                                                                         *)
(* The validator (GateSpec), the tester (src/src/mcp-2-tester.js,          *)
(* TesterSpec) and orchestrateTask (PlannerSpec) are also exercised on     *)
(* their own, and CancelSpec adds the signal handlers of the command line  *)
(* entry point to the loop.  SuiteSpec exercises runTestSuite, BatchSpec   *)
(* validateMultipleSteps and HandlerSpec ErrorHandler.handleWithRetry;     *)
(* EnvSpec starts the loop from every MAX_RETRIES setting.  The analyzer's *)
(* executionHistory (src/examples/basic-usage.md) is kept by the loop.     *)
(***************************************************************************)
EXTENDS Integers, Sequences, FiniteSets, TLC

\* ---------------------------------------------------------------- bounds
\* largest retry ceiling (this.maxRetries) explored
MaxCeiling == 3

\* the observation counter `attempts` saturates here
MaxSeen == MaxCeiling + 2

\* most keywords a task description includes
MaxKeywords == 2

\* most validate calls made on one validator
MaxHistory == 3

\* latest clock value explored
MaxClock == 1

\* most checks in a battery handed to runTestSuite
MaxBattery == 3

\* most ExecutionRecords of one step kind kept in executionHistory
MaxRecords == 2

\* most invocations of the operation handed to handleWithRetry
MaxInvocations == 4

\* ------------------------------------------------------------- constants
\* calculateFinalApproval: qualityScore >= 70
MinApprovalScore == 70

\* checkNextStepReadiness: analysis needs qualityScore >= 80
AnalysisNextScore == 80

\* calculateFinalApproval: confidence 'high' needs qualityScore >= 90
HighConfidenceScore == 90

VARIABLES
    taskSteps,          \* this.taskSteps: sequence of [id, type, status]
    currentStepIndex,   \* this.currentStepIndex (0-based)
    maxRetries,         \* this.maxRetries
    autoFix,            \* this.currentTask.autoFix
    pc,                 \* position of executeTaskLoop
    retryCount,         \* let retryCount
    stepCompleted,      \* let stepCompleted
    testResult,         \* const testResult (fields read by the loop and the gate)
    diagnostic,         \* const diagnostic (canAutoFix)
    validationResult,   \* const validationResult
    error,              \* what was thrown last (caught or propagated)
    attempts,           \* observation: analyzer.execute calls on the step at the cursor
    rejections,         \* observation: rejected validations on the step at the cursor
    approvedSteps,      \* observation: ids of the steps the gate approved
    gateInput,          \* the (step, record, checkRecord) triple handed to the gate
    validationHistory,  \* MCPValidator.validationHistory: the results returned so far
    validateInputs,     \* observation: the triple of each entry of validationHistory
    now,                \* the clock read by new Date()
    testerInput,        \* the (step, executionResult) pair handed to the tester
    testerExit,         \* how the call of test left, once it has
    testHistory,        \* MCPTester.testHistory
    diagnoseExit,       \* how the call of diagnose left, once it has
    suiteInput,         \* the (tests, testResult) pair handed to runTestSuite
    suiteExit,          \* how the call of runTestSuite left, once it has
    plannerInput,       \* the task description handed to orchestrateTask
    plannerExit,        \* how the call of orchestrateTask left, once it has
    executionHistory,   \* MCPAnalyzer.executionHistory
    handlerInput,       \* the (strategy name, operation) pair handed to handleWithRetry
    handlerPc,          \* where the call of handleWithRetry stands
    attempt,            \* handleWithRetry's local attempt
    lastError,          \* handleWithRetry's local lastError
    errorHistory,       \* ErrorHandler.errorHistory
    invocations,        \* observation: calls of the operation made so far
    handlerExit,        \* how the call of handleWithRetry left, once it has
    batchInput,         \* the lists handed to validateMultipleSteps
    batchExit           \* what validateMultipleSteps returned, once it has

\* the variables of executeTaskLoop
loopVars == <<taskSteps, currentStepIndex, maxRetries, autoFix, pc, retryCount,
              stepCompleted, testResult, diagnostic, validationResult, error,
              attempts, rejections, approvedSteps>>

\* the variables of a validator exercised on its own
gateVars == <<gateInput, validationHistory, validateInputs, now>>

\* the variables of the components exercised on their own, which the loop's
\* specification leaves alone
\* the variables of a tester exercised on its own
testerVars == <<testerInput, testerExit, testHistory, diagnoseExit,
                suiteInput, suiteExit>>

\* the variables of orchestrateTask exercised on its own
plannerVars == <<plannerInput, plannerExit>>

\* the variables of the analyzer
analyzerVars == <<executionHistory>>

\* the variables of an ErrorHandler exercised on its own
handlerVars == <<handlerInput, handlerPc, attempt, lastError, errorHistory,
                 invocations, handlerExit>>

\* the variables of validateMultipleSteps exercised on its own
batchVars == <<batchInput, batchExit>>

libraryVars == <<handlerVars, batchVars>>

collabVars == <<gateVars, testerVars, plannerVars, analyzerVars, libraryVars>>

vars == <<loopVars, collabVars>>

\* ------------------------------------------------------------ the planner
TaskTypes == {"creation", "bugfix", "improvement", "testing", "documentation", "general"}

NewStep(id, type) == [id |-> id, type |-> type, status |-> "pending"]

createCreationSteps == <<NewStep(2, "implementation")>>

\* variant of createBugfixSteps that plans the fix before the investigation
createBugfixSteps_FixFirst == <<NewStep(2, "fix"), NewStep(3, "investigation")>>

createBugfixSteps == <<NewStep(2, "investigation"), NewStep(3, "fix")>>

createImprovementSteps == <<NewStep(2, "refactor")>>

createTestingSteps == <<NewStep(2, "testing")>>

createDocumentationSteps == <<NewStep(2, "documentation")>>

createGeneralSteps == <<NewStep(2, "general")>>

\* variant of createTaskSteps that numbers the final step steps.length
createTaskSteps_LastIdIsLength(taskType) ==
    LET base == <<NewStep(1, "analysis")>>
        middle == CASE taskType = "creation" -> createCreationSteps
                    [] taskType = "bugfix" -> createBugfixSteps
                    [] taskType = "improvement" -> createImprovementSteps
                    [] taskType = "testing" -> createTestingSteps
                    [] taskType = "documentation" -> createDocumentationSteps
                    [] OTHER -> createGeneralSteps
        steps == base \o middle
    IN  steps \o <<NewStep(Len(steps), "validation")>>

createTaskSteps(taskType) ==
    LET base == <<NewStep(1, "analysis")>>
        middle == CASE taskType = "creation" -> createCreationSteps
                    [] taskType = "bugfix" -> createBugfixSteps
                    [] taskType = "improvement" -> createImprovementSteps
                    [] taskType = "testing" -> createTestingSteps
                    [] taskType = "documentation" -> createDocumentationSteps
                    [] OTHER -> createGeneralSteps
        steps == base \o middle
    IN  steps \o <<NewStep(Len(steps) + 1, "validation")>>

\* ------------------------------------------------------ the validation gate
\* Outcome of one criterion's check function.
Outcomes == {"pass", "fail", "throw"}

\* A rubric entry.  `reads` names what the check function reads when its
\* result is fixed by the CheckRecord: "errors.length" (errors.length === 0),
\* "failed.length" (failed.length === 0), "errors.some" (!errors.some(...)),
\* or "record" when it depends on other fields of the records.
Criterion(name, weight, critical, reads) ==
    [name |-> name, weight |-> weight, critical |-> critical, reads |-> reads]

validateAnalysis ==
    << Criterion("Requisitos analisados", 30, TRUE, "record"),
       Criterion("Dependencias verificadas", 25, TRUE, "record"),
       Criterion("Estrutura preparada", 20, FALSE, "record"),
       Criterion("Execucao sem erros", 25, TRUE, "errors.length") >>

validateImplementation ==
    << Criterion("Arquivos criados/modificados", 25, TRUE, "record"),
       Criterion("Sintaxe valida", 30, TRUE, "errors.some"),
       Criterion("Funcionalidade basica", 25, FALSE, "record"),
       Criterion("Sem regressoes", 20, FALSE, "record") >>

validateInvestigation ==
    << Criterion("Analise de erros completa", 30, TRUE, "record"),
       Criterion("Problema reproduzido", 25, TRUE, "record"),
       Criterion("Causa raiz identificada", 25, TRUE, "record"),
       Criterion("Solucao proposta", 20, FALSE, "record") >>

validateFix ==
    << Criterion("Correcao aplicada", 40, TRUE, "record"),
       Criterion("Testes passando", 30, TRUE, "failed.length"),
       Criterion("Problema original resolvido", 20, TRUE, "record"),
       Criterion("Sem efeitos colaterais", 10, FALSE, "record") >>

validateRefactor ==
    << Criterion("Funcionalidade preservada", 40, TRUE, "record"),
       Criterion("Codigo melhorado", 25, FALSE, "record"),
       Criterion("Performance mantida/melhorada", 20, FALSE, "record"),
       Criterion("Estrutura de arquivos otimizada", 15, FALSE, "record") >>

validateTesting ==
    << Criterion("Testes executados com sucesso", 40, TRUE, "record"),
       Criterion("Cobertura adequada", 30, FALSE, "record"),
       Criterion("Casos de teste abrangentes", 20, FALSE, "record"),
       Criterion("Relatorio de testes gerado", 10, FALSE, "record") >>

validateDocumentation ==
    << Criterion("Documentacao criada/atualizada", 40, TRUE, "record"),
       Criterion("README atualizado se necessario", 25, FALSE, "record"),
       Criterion("Comentarios no codigo adequados", 20, FALSE, "record"),
       Criterion("Exemplos de uso incluidos", 15, FALSE, "record") >>

validateValidation ==
    << Criterion("Validacao executada", 50, TRUE, "record"),
       Criterion("Criterios atendidos", 30, TRUE, "record"),
       Criterion("Relatorio de validacao gerado", 20, FALSE, "record") >>

validateGeneral ==
    << Criterion("Execucao completada", 40, TRUE, "record"),
       Criterion("Sem erros criticos", 30, TRUE, "errors.length"),
       Criterion("Objetivos atingidos", 20, FALSE, "record"),
       Criterion("Deliverables criados", 10, FALSE, "record") >>

\* the switch (step.type) of validate
Rubric(type) ==
    CASE type = "analysis" -> validateAnalysis
      [] type = "implementation" -> validateImplementation
      [] type = "investigation" -> validateInvestigation
      [] type = "fix" -> validateFix
      [] type = "refactor" -> validateRefactor
      [] type = "testing" -> validateTesting
      [] type = "documentation" -> validateDocumentation
      [] type = "validation" -> validateValidation
      [] OTHER -> validateGeneral

\* What criterion.check() yields: rec[i] abstracts the fields of the
\* ExecutionRecord / CheckRecord the i-th check reads; tr is the CheckRecord.
CheckOutcome(c, i, rec, tr) ==
    CASE c.reads = "errors.length" -> IF tr.errorsEmpty THEN "pass" ELSE "fail"
      [] c.reads = "failed.length" -> IF tr.failedEmpty THEN "pass" ELSE "fail"
      [] c.reads = "errors.some" -> IF tr.errorsEmpty THEN "pass" ELSE rec[i]
      [] OTHER -> rec[i]

RECURSIVE SumWeights(_, _, _)
\* sum of criteria[i].weight over the indices i <= n with keep[i]
SumWeights(criteria, keep, n) ==
    IF n = 0 THEN 0
    ELSE SumWeights(criteria, keep, n - 1) + (IF keep[n] THEN criteria[n].weight ELSE 0)

\* Math.round(num / den * 100) for num >= 0, den > 0
RoundPercent(num, den) == (200 * num + den) \div (2 * den)

\* A reason string: its leading mark, its text, and whether the text
\* contains the substrings the gate later searches for.
Reason(mark, text, critico, funcionalidade) ==
    [mark |-> mark, text |-> text, critico |-> critico, funcionalidade |-> funcionalidade]

\* criterion names containing 'CRÍTICO' (none of the rubrics' names does)
NamesWithCRITICO == {}

\* criterion names containing 'Funcionalidade'
NamesWithFuncionalidade == {"Funcionalidade basica", "Funcionalidade preservada"}

\* criterion names containing 'problema original' (case-sensitive)
NamesWithProblemaOriginal == {}

CriterionReason(c, outcome) ==
    Reason(CASE outcome = "pass" -> "ok" [] outcome = "fail" -> "fail" [] OTHER -> "warn",
           c.name, c.name \in NamesWithCRITICO, c.name \in NamesWithFuncionalidade)

\* evaluateCriteria: out[i] is the outcome of criteria[i].check()
evaluateCriteria(criteria, out) ==
    LET n == Len(criteria)
        counted == [i \in 1..n |-> out[i] # "throw"]
        passed == [i \in 1..n |-> out[i] = "pass"]
        totalWeight == SumWeights(criteria, counted, n)
        achievedWeight == SumWeights(criteria, passed, n)
        criticalFailures == Cardinality({i \in 1..n : criteria[i].critical /\ out[i] # "pass"})
        qualityScore == IF totalWeight > 0 THEN RoundPercent(achievedWeight, totalWeight) ELSE 0
        completeness == IF n > 0
                        THEN RoundPercent(Cardinality({i \in 1..n : out[i] = "pass"}), n)
                        ELSE 0
    IN  [reasons |-> [i \in 1..n |-> CriterionReason(criteria[i], out[i])],
         qualityScore |-> qualityScore,
         completeness |-> completeness,
         confidence |-> IF criticalFailures > 0 THEN "low"
                        ELSE IF qualityScore >= 80 THEN "high"
                        ELSE IF qualityScore >= 60 THEN "medium"
                        ELSE "low"]

\* validateCreatedFiles (implementation only): the reason pushed for a
\* created file; fileCheck abstracts the file's existence and basename.
FileChecks == {"none", "valid", "validFuncionalidade", "missing", "missingCRITICO"}

validateCreatedFiles(fileCheck) ==
    CASE fileCheck = "valid" -> <<Reason("ok", "Arquivo valido", FALSE, FALSE)>>
      [] fileCheck = "validFuncionalidade" -> <<Reason("ok", "Arquivo valido", FALSE, TRUE)>>
      [] fileCheck = "missing" -> <<Reason("fail", "Arquivo nao encontrado", FALSE, FALSE)>>
      [] fileCheck = "missingCRITICO" -> <<Reason("fail", "Arquivo nao encontrado", TRUE, FALSE)>>
      [] OTHER -> << >>

\* variant of calculateFinalApproval that approves without the minimum score
calculateFinalApproval_NoMinimumScore(v) ==
    LET hasNoCriticalFailures ==
            ~ \E k \in 1..Len(v.reasons) : v.reasons[k].mark = "fail" /\ v.reasons[k].critico
        hasHighConfidence == v.confidence = "high"
                             \/ (v.confidence = "medium" /\ v.qualityScore >= 80)
        approved == hasNoCriticalFailures
    IN  [v EXCEPT !.confidence =
                     IF v.qualityScore >= HighConfidenceScore /\ hasNoCriticalFailures THEN "high"
                     ELSE IF v.qualityScore >= MinApprovalScore /\ hasNoCriticalFailures THEN "medium"
                     ELSE "low"]
        @@ [approved |-> approved, finalApproval |-> approved /\ hasHighConfidence]

\* calculateFinalApproval, applied to the result of evaluateCriteria
calculateFinalApproval(v) ==
    LET hasNoCriticalFailures ==
            ~ \E k \in 1..Len(v.reasons) : v.reasons[k].mark = "fail" /\ v.reasons[k].critico
        hasMinimumScore == v.qualityScore >= MinApprovalScore
        hasHighConfidence == v.confidence = "high"
                             \/ (v.confidence = "medium" /\ v.qualityScore >= 80)
        approved == hasNoCriticalFailures /\ hasMinimumScore
    IN  [v EXCEPT !.confidence =
                     IF v.qualityScore >= HighConfidenceScore /\ hasNoCriticalFailures THEN "high"
                     ELSE IF v.qualityScore >= MinApprovalScore /\ hasNoCriticalFailures THEN "medium"
                     ELSE "low"]
        @@ [approved |-> approved, finalApproval |-> approved /\ hasHighConfidence]

\* checkNextStepReadiness
checkNextStepReadiness(type, v) ==
    LET n == Len(v.reasons)
        okFuncionalidade ==
            \E k \in 1..n : v.reasons[k].mark = "ok" /\ v.reasons[k].funcionalidade
        okProblemaOriginal ==
            \E k \in 1..n : v.reasons[k].mark = "ok"
                             /\ v.reasons[k].text \in NamesWithProblemaOriginal
    IN  v @@ [nextStepApproved |->
                CASE type = "analysis" -> v.approved /\ v.qualityScore >= AnalysisNextScore
                  [] type = "implementation" -> v.approved /\ okFuncionalidade
                  [] type = "fix" -> v.approved /\ okProblemaOriginal
                  [] OTHER -> v.approved]

\* validate(step, executionResult, testResult) when it returns
validate(step, rec, fileCheck, tr) ==
    LET criteria == Rubric(step.type)
        out == [i \in 1..Len(criteria) |-> CheckOutcome(criteria[i], i, rec, tr)]
        v0 == evaluateCriteria(criteria, out)
        v1 == IF step.type = "implementation"
              THEN [v0 EXCEPT !.reasons = @ \o validateCreatedFiles(fileCheck)]
              ELSE v0
    IN  checkNextStepReadiness(step.type, calculateFinalApproval(v1))
        @@ [stepId |-> step.id]

\* the object validate returns: the fields above and the timestamp it took
\* from the clock when it built the object
validateAt(input, clock) ==
    validate(input.step, input.rec, input.fileCheck, input.tr) @@ [timestamp |-> clock]

\* ------------------------------------------------------ the controller loop
\* const currentStep = this.taskSteps[this.currentStepIndex]
currentStep == taskSteps[currentStepIndex + 1]

\* outcomes of the check functions that read the records, as the loop's
\* collaborators produce them (execute and test always fill the arrays read,
\* so no check function throws)
RecordChecks == {"pass", "fail"}

\* the records a step of kind `type` can hand to the gate: one outcome per
\* check that reads the records (the entry of a check decided by the
\* CheckRecord alone is not read and is fixed to "pass")
RecordsFor(type) ==
    {rec \in [1..Len(Rubric(type)) -> RecordChecks] :
        \A i \in 1..Len(Rubric(type)) :
            Rubric(type)[i].reads \in {"errors.length", "failed.length"} => rec[i] = "pass"}

\* validateCreatedFiles runs for implementation steps only
FileChecksFor(type) == IF type = "implementation" THEN FileChecks ELSE {"none"}

Bump(n) == IF n < MaxSeen THEN n + 1 ELSE MaxSeen

\* an analyzer as constructed (executionHistory = [])
AnalyzerIdle == executionHistory = << >>

\* an ErrorHandler as constructed (errorHistory = []) that is not exercised
HandlerIdle ==
    /\ handlerInput = << >>
    /\ handlerPc = "idle"
    /\ attempt = 0
    /\ lastError = << >>
    /\ errorHistory = << >>
    /\ invocations = 0
    /\ handlerExit = << >>

\* validateMultipleSteps is not called
BatchIdle ==
    /\ batchInput = << >>
    /\ batchExit = << >>

\* no task has been handed to orchestrateTask
PlannerIdle ==
    /\ plannerInput = << >>
    /\ plannerExit = << >>

\* a tester as constructed (testHistory = []) that is not exercised
TesterIdle ==
    /\ testerInput = << >>
    /\ testerExit = << >>
    /\ testHistory = << >>
    /\ diagnoseExit = << >>
    /\ suiteInput = << >>
    /\ suiteExit = << >>

\* a validator as constructed (validationHistory = []) that is not exercised
GateIdle ==
    /\ gateInput = << >>
    /\ validationHistory = << >>
    /\ validateInputs = << >>
    /\ now = 0

\* The state when executeTaskLoop is entered: the plan of one of the task
\* classes, the cursor at the first step, a retry ceiling of at least one.
Init ==
    /\ \E taskType \in TaskTypes : taskSteps = createTaskSteps(taskType)
    /\ currentStepIndex = 0
    /\ maxRetries \in 1..MaxCeiling
    /\ autoFix \in BOOLEAN
    /\ pc = "outer"
    /\ retryCount = 0
    /\ stepCompleted = FALSE
    /\ testResult = << >>
    /\ diagnostic = << >>
    /\ validationResult = << >>
    /\ error = "none"
    /\ attempts = 0
    /\ rejections = 0
    /\ approvedSteps = {}
    /\ GateIdle
    /\ TesterIdle
    /\ PlannerIdle
    /\ AnalyzerIdle
    /\ HandlerIdle
    /\ BatchIdle

\* variant of WhileSteps that declares retryCount once, outside the loop
WhileSteps_KeepsRetryCount ==
    /\ pc = "outer"
    /\ IF currentStepIndex < Len(taskSteps)
       THEN /\ stepCompleted' = FALSE
            /\ pc' = "inner"
       ELSE /\ pc' = "returned"
            /\ UNCHANGED stepCompleted
    /\ UNCHANGED <<taskSteps, currentStepIndex, maxRetries, autoFix, retryCount,
                   testResult, diagnostic, validationResult, error, attempts,
                   rejections, approvedSteps>>
    /\ UNCHANGED collabVars

\* while (this.currentStepIndex < this.taskSteps.length) { let retryCount = 0; ... }
WhileSteps ==
    /\ pc = "outer"
    /\ IF currentStepIndex < Len(taskSteps)
       THEN /\ retryCount' = 0
            /\ stepCompleted' = FALSE
            /\ pc' = "inner"
       ELSE /\ pc' = "returned"
            /\ UNCHANGED <<retryCount, stepCompleted>>
    /\ UNCHANGED <<taskSteps, currentStepIndex, maxRetries, autoFix, testResult,
                   diagnostic, validationResult, error, attempts, rejections,
                   approvedSteps>>
    /\ UNCHANGED collabVars

\* variant of WhileRetry that loops on `while (!stepCompleted)` alone
WhileRetry_NoCeiling ==
    /\ pc = "inner"
    /\ IF ~stepCompleted
       THEN /\ pc' = "execute"
            /\ testResult' = << >>
            /\ diagnostic' = << >>
            /\ validationResult' = << >>
       ELSE /\ pc' = "outer"
            /\ UNCHANGED <<testResult, diagnostic, validationResult>>
    /\ UNCHANGED <<taskSteps, currentStepIndex, maxRetries, autoFix, retryCount,
                   stepCompleted, error, attempts, rejections, approvedSteps>>
    /\ UNCHANGED collabVars

\* while (!stepCompleted && retryCount < this.maxRetries) { try {
WhileRetry ==
    /\ pc = "inner"
    /\ IF ~stepCompleted /\ retryCount < maxRetries
       THEN /\ pc' = "execute"
            /\ testResult' = << >>
            /\ diagnostic' = << >>
            /\ validationResult' = << >>
       ELSE /\ pc' = "outer"
            /\ UNCHANGED <<testResult, diagnostic, validationResult>>
    /\ UNCHANGED <<taskSteps, currentStepIndex, maxRetries, autoFix, retryCount,
                   stepCompleted, error, attempts, rejections, approvedSteps>>
    /\ UNCHANGED collabVars

\* findPreviousResults(type): executionHistory.find(result => result.type === type),
\* the first record of that kind, if any
findPreviousResults(history, type) ==
    LET matches == {i \in 1..Len(history) : history[i].type = type}
    IN  IF matches = {} THEN << >>
        ELSE <<history[CHOOSE i \in matches : \A k \in matches : i <= k]>>

\* The ExecutionRecord that execute builds for a step; startTime is the rank
\* of the record among those of its kind in the history.
NewExecutionRecord(step, history) ==
    [stepId |-> step.id, type |-> step.type,
     startTime |-> Cardinality({i \in 1..Len(history) : history[i].type = step.type}) + 1]

\* this.executionHistory.push(executionResult); of each kind the first
\* MaxRecords records are kept (find returns the first of a kind)
PushRecord(history, record) ==
    IF record.startTime <= MaxRecords THEN Append(history, record) ELSE history

\* executeFix throws 'Correcao requer investigacao previa' when the history
\* holds no record of kind investigation
InvestigationMissing(step, history) ==
    step.type = "fix" /\ findPreviousResults(history, "investigation") = << >>

\* variant of Execute that does not push the record to executionHistory
Execute_NoHistory ==
    /\ pc = "execute"
    /\ attempts' = Bump(attempts)
    /\ \/ /\ ~InvestigationMissing(currentStep, executionHistory)
          /\ pc' = "test"
          /\ UNCHANGED error
       \/ /\ pc' = "catch"
          /\ error' \in {"execute"} \cup
                        (IF InvestigationMissing(currentStep, executionHistory)
                         THEN {"investigationRequired"} ELSE {})
    /\ UNCHANGED executionHistory
    /\ UNCHANGED <<taskSteps, currentStepIndex, maxRetries, autoFix, retryCount,
                   stepCompleted, testResult, diagnostic, validationResult,
                   rejections, approvedSteps>>
    /\ UNCHANGED <<gateVars, testerVars, plannerVars, libraryVars>>

\* variant of Execute that goes on to the tester when analyzer.execute throws
Execute_ThrowGoesOnToTest ==
    /\ pc = "execute"
    /\ attempts' = Bump(attempts)
    /\ \/ /\ pc' = "test"
          /\ executionHistory' =
                PushRecord(executionHistory, NewExecutionRecord(currentStep, executionHistory))
          /\ UNCHANGED error
       \/ /\ pc' = "test"
          /\ error' = "execute"
          /\ UNCHANGED executionHistory
    /\ UNCHANGED <<taskSteps, currentStepIndex, maxRetries, autoFix, retryCount,
                   stepCompleted, testResult, diagnostic, validationResult,
                   rejections, approvedSteps>>
    /\ UNCHANGED <<gateVars, testerVars, plannerVars, libraryVars>>

\* const executionResult = await this.analyzer.execute(currentStep, ...)
\* execute pushes the record to executionHistory when the handler of the kind
\* returned, and rethrows what it threw.
Execute ==
    /\ pc = "execute"
    /\ attempts' = Bump(attempts)
    /\ \/ /\ ~InvestigationMissing(currentStep, executionHistory)
          /\ pc' = "test"
          /\ executionHistory' =
                PushRecord(executionHistory, NewExecutionRecord(currentStep, executionHistory))
          /\ UNCHANGED error
       \/ /\ pc' = "catch"
          /\ error' \in {"execute"} \cup
                        (IF InvestigationMissing(currentStep, executionHistory)
                         THEN {"investigationRequired"} ELSE {})
          /\ UNCHANGED executionHistory
    /\ UNCHANGED <<taskSteps, currentStepIndex, maxRetries, autoFix, retryCount,
                   stepCompleted, testResult, diagnostic, validationResult,
                   rejections, approvedSteps>>
    /\ UNCHANGED <<gateVars, testerVars, plannerVars, libraryVars>>

\* MCPTester.test: hasErrors and canProceed as computed before it returns
CheckRecord(errorsEmpty, failedEmpty) ==
    LET hasErrors == ~errorsEmpty \/ ~failedEmpty
    IN  [errorsEmpty |-> errorsEmpty, failedEmpty |-> failedEmpty,
         hasErrors |-> hasErrors, canProceed |-> ~hasErrors]

\* variant of Test that goes on to documentation whatever hasErrors is
Test_IgnoresHasErrors ==
    /\ pc = "test"
    /\ \/ \E errorsEmpty \in BOOLEAN, failedEmpty \in BOOLEAN :
            /\ testResult' = <<CheckRecord(errorsEmpty, failedEmpty)>>
            /\ pc' = "document"
            /\ UNCHANGED error
       \/ /\ pc' = "catch"
          /\ error' = "test"
          /\ UNCHANGED testResult
    /\ UNCHANGED <<taskSteps, currentStepIndex, maxRetries, autoFix, retryCount,
                   stepCompleted, diagnostic, validationResult, attempts,
                   rejections, approvedSteps>>
    /\ UNCHANGED collabVars

\* const testResult = await this.tester.test(...); if (testResult.hasErrors) {
Test ==
    /\ pc = "test"
    /\ \/ \E errorsEmpty \in BOOLEAN, failedEmpty \in BOOLEAN :
            /\ testResult' = <<CheckRecord(errorsEmpty, failedEmpty)>>
            /\ pc' = IF testResult'[1].hasErrors THEN "diagnose" ELSE "document"
            /\ UNCHANGED error
       \/ /\ pc' = "catch"
          /\ error' = "test"
          /\ UNCHANGED testResult
    /\ UNCHANGED <<taskSteps, currentStepIndex, maxRetries, autoFix, retryCount,
                   stepCompleted, diagnostic, validationResult, attempts,
                   rejections, approvedSteps>>
    /\ UNCHANGED collabVars

\* variant of Diagnose that tests diagnostic.canAutoFix alone
Diagnose_IgnoresAutoFix ==
    /\ pc = "diagnose"
    /\ \/ \E canAutoFix \in BOOLEAN :
            /\ diagnostic' = <<[canAutoFix |-> canAutoFix]>>
            /\ IF canAutoFix
               THEN pc' = "applyFix" /\ UNCHANGED error
               ELSE pc' = "catch" /\ error' = "notFixable"
       \/ /\ pc' = "catch"
          /\ error' = "diagnose"
          /\ UNCHANGED diagnostic
    /\ UNCHANGED <<taskSteps, currentStepIndex, maxRetries, autoFix, retryCount,
                   stepCompleted, testResult, validationResult, attempts,
                   rejections, approvedSteps>>
    /\ UNCHANGED collabVars

\* const diagnostic = await this.tester.diagnose(testResult.errors);
\* if (this.currentTask.autoFix && diagnostic.canAutoFix) {...} else throw
Diagnose ==
    /\ pc = "diagnose"
    /\ \/ \E canAutoFix \in BOOLEAN :
            /\ diagnostic' = <<[canAutoFix |-> canAutoFix]>>
            /\ IF autoFix /\ canAutoFix
               THEN pc' = "applyFix" /\ UNCHANGED error
               ELSE pc' = "catch" /\ error' = "notFixable"
       \/ /\ pc' = "catch"
          /\ error' = "diagnose"
          /\ UNCHANGED diagnostic
    /\ UNCHANGED <<taskSteps, currentStepIndex, maxRetries, autoFix, retryCount,
                   stepCompleted, testResult, validationResult, attempts,
                   rejections, approvedSteps>>
    /\ UNCHANGED collabVars

\* await this.analyzer.applyFix(diagnostic.suggestedFix); retryCount++; continue;
ApplyFix ==
    /\ pc = "applyFix"
    /\ \E returns \in BOOLEAN :
         IF returns
         THEN /\ retryCount' = retryCount + 1
              /\ pc' = "inner"
              /\ UNCHANGED error
         ELSE /\ pc' = "catch"
              /\ error' = "applyFix"
              /\ UNCHANGED retryCount
    /\ UNCHANGED <<taskSteps, currentStepIndex, maxRetries, autoFix, stepCompleted,
                   testResult, diagnostic, validationResult, attempts, rejections,
                   approvedSteps>>
    /\ UNCHANGED collabVars

\* await this.documentor.document(currentStep, executionResult, testResult);
Document ==
    /\ pc = "document"
    /\ \E returns \in BOOLEAN :
         IF returns
         THEN pc' = "validate" /\ UNCHANGED error
         ELSE pc' = "catch" /\ error' = "document"
    /\ UNCHANGED <<taskSteps, currentStepIndex, maxRetries, autoFix, retryCount,
                   stepCompleted, testResult, diagnostic, validationResult,
                   attempts, rejections, approvedSteps>>
    /\ UNCHANGED collabVars

\* const validationResult = await this.validator.validate(currentStep, ...)
Validate ==
    /\ pc = "validate"
    /\ \/ /\ pc' = "catch"
          /\ error' = "validate"
          /\ UNCHANGED <<validationResult, approvedSteps>>
       \/ \E rec \in RecordsFor(currentStep.type),
             fileCheck \in FileChecksFor(currentStep.type) :
            /\ validationResult' = <<validate(currentStep, rec, fileCheck, testResult[1])>>
            /\ approvedSteps' = IF validationResult'[1].approved
                                THEN approvedSteps \cup {currentStep.id}
                                ELSE approvedSteps
            /\ pc' = "decide"
            /\ UNCHANGED error
    /\ UNCHANGED <<taskSteps, currentStepIndex, maxRetries, autoFix, retryCount,
                   stepCompleted, testResult, diagnostic, attempts, rejections>>
    /\ UNCHANGED collabVars

\* variant of Advance that does not test validationResult.approved
Advance_WithoutApproval ==
    /\ pc = "decide"
    /\ stepCompleted' = TRUE
    /\ taskSteps' = [taskSteps EXCEPT ![currentStepIndex + 1].status = "completed"]
    /\ IF currentStepIndex + 1 < Len(taskSteps)
       THEN /\ currentStepIndex' = currentStepIndex + 1
            /\ attempts' = 0
            /\ rejections' = 0
            /\ pc' = "inner"
       ELSE /\ pc' = "outer"
            /\ UNCHANGED <<currentStepIndex, attempts, rejections>>
    /\ UNCHANGED <<maxRetries, autoFix, retryCount, testResult, diagnostic,
                   validationResult, error, approvedSteps>>
    /\ UNCHANGED collabVars

\* variant of Advance that marks this.taskSteps[this.currentStepIndex] after
\* the cursor was incremented instead of the captured currentStep
Advance_MarksAfterIncrement ==
    /\ pc = "decide"
    /\ validationResult[1].approved
    /\ stepCompleted' = TRUE
    /\ IF currentStepIndex + 1 < Len(taskSteps)
       THEN /\ currentStepIndex' = currentStepIndex + 1
            /\ taskSteps' = [taskSteps EXCEPT ![currentStepIndex + 2].status = "completed"]
            /\ attempts' = 0
            /\ rejections' = 0
            /\ pc' = "inner"
       ELSE /\ taskSteps' = [taskSteps EXCEPT ![currentStepIndex + 1].status = "completed"]
            /\ pc' = "outer"
            /\ UNCHANGED <<currentStepIndex, attempts, rejections>>
    /\ UNCHANGED <<maxRetries, autoFix, retryCount, testResult, diagnostic,
                   validationResult, error, approvedSteps>>
    /\ UNCHANGED collabVars

\* variant of Advance that increments the cursor without the
\* `currentStepIndex + 1 < taskSteps.length` test
Advance_AlwaysIncrements ==
    /\ pc = "decide"
    /\ validationResult[1].approved
    /\ stepCompleted' = TRUE
    /\ taskSteps' = [taskSteps EXCEPT ![currentStepIndex + 1].status = "completed"]
    /\ currentStepIndex' = currentStepIndex + 1
    /\ attempts' = 0
    /\ rejections' = 0
    /\ pc' = "inner"
    /\ UNCHANGED <<maxRetries, autoFix, retryCount, testResult, diagnostic,
                   validationResult, error, approvedSteps>>
    /\ UNCHANGED collabVars

\* if (validationResult.approved) { stepCompleted = true; currentStep.status =
\* 'completed'; if (index + 1 < length) index++ else break }
Advance ==
    /\ pc = "decide"
    /\ validationResult[1].approved
    /\ stepCompleted' = TRUE
    /\ taskSteps' = [taskSteps EXCEPT ![currentStepIndex + 1].status = "completed"]
    /\ IF currentStepIndex + 1 < Len(taskSteps)
       THEN /\ currentStepIndex' = currentStepIndex + 1
            /\ attempts' = 0
            /\ rejections' = 0
            /\ pc' = "inner"
       ELSE /\ pc' = "outer"
            /\ UNCHANGED <<currentStepIndex, attempts, rejections>>
    /\ UNCHANGED <<maxRetries, autoFix, retryCount, testResult, diagnostic,
                   validationResult, error, approvedSteps>>
    /\ UNCHANGED collabVars

\* } else { throw new Error(`Validação falhou: ...`) }
Reject ==
    /\ pc = "decide"
    /\ ~validationResult[1].approved
    /\ rejections' = Bump(rejections)
    /\ error' = "rejected"
    /\ pc' = "catch"
    /\ UNCHANGED <<taskSteps, currentStepIndex, maxRetries, autoFix, retryCount,
                   stepCompleted, testResult, diagnostic, validationResult,
                   attempts, approvedSteps>>
    /\ UNCHANGED collabVars

\* variant of Catch that does not count an attempt the gate rejected
Catch_RejectionNotCounted ==
    /\ pc = "catch"
    /\ retryCount' = IF error = "rejected" THEN retryCount ELSE retryCount + 1
    /\ pc' = IF retryCount' >= maxRetries THEN "thrown" ELSE "sleep"
    /\ UNCHANGED <<taskSteps, currentStepIndex, maxRetries, autoFix, stepCompleted,
                   testResult, diagnostic, validationResult, error, attempts,
                   rejections, approvedSteps>>
    /\ UNCHANGED collabVars

\* catch (error) { retryCount++; if (retryCount >= this.maxRetries) throw ... else
Catch ==
    /\ pc = "catch"
    /\ retryCount' = retryCount + 1
    /\ pc' = IF retryCount' >= maxRetries THEN "thrown" ELSE "sleep"
    /\ UNCHANGED <<taskSteps, currentStepIndex, maxRetries, autoFix, stepCompleted,
                   testResult, diagnostic, validationResult, error, attempts,
                   rejections, approvedSteps>>
    /\ UNCHANGED collabVars

\* await this.sleep(2000): MCPOrchestrator defines delay(ms) but no sleep, so the
\* call throws a TypeError inside the catch block and leaves executeTaskLoop
Sleep ==
    /\ pc = "sleep"
    /\ error' = "sleepNotAFunction"
    /\ pc' = "thrown"
    /\ UNCHANGED <<taskSteps, currentStepIndex, maxRetries, autoFix, retryCount,
                   stepCompleted, testResult, diagnostic, validationResult,
                   attempts, rejections, approvedSteps>>
    /\ UNCHANGED collabVars

Next ==
    \/ WhileSteps
    \/ WhileRetry
    \/ Execute
    \/ Test
    \/ Diagnose
    \/ ApplyFix
    \/ Document
    \/ Validate
    \/ Advance
    \/ Reject
    \/ Catch
    \/ Sleep

Spec == Init /\ [][Next]_vars

\* the loop is one sequential async function: whenever it can take a step it does
FairSpec == Spec /\ WF_vars(Next)

\* ------------------------------------------------- external cancellation
\* the positions at which executeTaskLoop is suspended in an await, where the
\* event loop can run a signal handler
AwaitPoints == {"execute", "test", "diagnose", "applyFix", "document", "validate"}

\* process.on('SIGINT' / 'SIGTERM', () => { ...; process.exit(0); })
Interrupt ==
    /\ pc \in AwaitPoints
    /\ pc' = "exited"
    /\ UNCHANGED <<taskSteps, currentStepIndex, maxRetries, autoFix, retryCount,
                   stepCompleted, testResult, diagnostic, validationResult, error,
                   attempts, rejections, approvedSteps>>
    /\ UNCHANGED collabVars

CancelNext ==
    \/ Next
    \/ Interrupt

\* executeTaskLoop in a process that can receive SIGINT or SIGTERM
CancelSpec == Init /\ [][CancelNext]_vars

\* ------------------------------------------- the validator on its own
\* an orchestrator as constructed whose loop is not running
LoopIdle ==
    /\ taskSteps = << >>
    /\ currentStepIndex = 0
    /\ maxRetries = MaxCeiling
    /\ autoFix = FALSE
    /\ pc = "idle"
    /\ retryCount = 0
    /\ stepCompleted = FALSE
    /\ testResult = << >>
    /\ diagnostic = << >>
    /\ validationResult = << >>
    /\ error = "none"
    /\ attempts = 0
    /\ rejections = 0
    /\ approvedSteps = {}

\* the cases of the switch (step.type) of validate, its default included
StepKinds ==
    {"analysis", "implementation", "investigation", "fix", "refactor", "testing",
     "documentation", "validation", "general"}

\* the triples validate can be called with: a step of any kind, any outcome
\* of each check function (a throwing one included), any CheckRecord
GateInputs ==
    UNION {{[step |-> NewStep(1, kind), rec |-> rec, fileCheck |-> fileCheck,
             tr |-> CheckRecord(errorsEmpty, failedEmpty)] :
                rec \in [1..Len(Rubric(kind)) -> Outcomes],
                fileCheck \in FileChecksFor(kind),
                errorsEmpty \in BOOLEAN, failedEmpty \in BOOLEAN} :
           kind \in StepKinds}

\* another triple for the same step: every check function fails on its record
OtherInput(input) == [input EXCEPT !.rec = [i \in DOMAIN input.rec |-> "fail"]]

GateInit ==
    /\ LoopIdle
    /\ TesterIdle
    /\ PlannerIdle
    /\ AnalyzerIdle
    /\ HandlerIdle
    /\ BatchIdle
    /\ gateInput \in GateInputs
    /\ validationHistory = << >>
    /\ validateInputs = << >>
    /\ now = 0

\* variant of GateValidate that reads validationHistory: the result reports a
\* completeness of 0 when the result before it was rejected
GateValidate_ReadsHistory ==
    /\ Len(validationHistory) < MaxHistory
    /\ \E input \in {gateInput, OtherInput(gateInput)} :
         LET v == validateAt(input, now)
             h == Len(validationHistory)
         IN  /\ validationHistory' =
                    Append(validationHistory,
                           IF h = 0 THEN v
                           ELSE [v EXCEPT !.completeness =
                                            IF validationHistory[h].approved THEN @ ELSE 0])
             /\ validateInputs' = Append(validateInputs, input)
    /\ UNCHANGED <<gateInput, now>>
    /\ UNCHANGED loopVars
    /\ UNCHANGED <<testerVars, plannerVars, analyzerVars, libraryVars>>

\* validate(step, executionResult, testResult) on the triple at hand or on
\* another one: the result is pushed onto validationHistory and returned
GateValidate ==
    /\ Len(validationHistory) < MaxHistory
    /\ \E input \in {gateInput, OtherInput(gateInput)} :
         /\ validationHistory' = Append(validationHistory, validateAt(input, now))
         /\ validateInputs' = Append(validateInputs, input)
    /\ UNCHANGED <<gateInput, now>>
    /\ UNCHANGED loopVars
    /\ UNCHANGED <<testerVars, plannerVars, analyzerVars, libraryVars>>

\* time passes between two calls (the clock counts from the first call)
Tick ==
    /\ validationHistory # << >>
    /\ now < MaxClock
    /\ now' = now + 1
    /\ UNCHANGED <<gateInput, validationHistory, validateInputs>>
    /\ UNCHANGED loopVars
    /\ UNCHANGED <<testerVars, plannerVars, analyzerVars, libraryVars>>

GateNext ==
    \/ GateValidate
    \/ Tick

GateSpec == GateInit /\ [][GateNext]_vars

\* ------------------------------------------------ the tester on its own
\* the testResult object test starts from
NewTestResult ==
    [errors |-> << >>, warnings |-> << >>, passed |-> << >>, failed |-> << >>,
     hasErrors |-> FALSE, canProceed |-> FALSE]

TestCase(name, critical) == [name |-> name, critical |-> critical]

RECURSIVE runTestSuite_StopsAtThrow(_, _, _)
\* variant of runTestSuite that lets the exception of a check end the loop
runTestSuite_StopsAtThrow(tests, out, tr) ==
    IF tests = << >> THEN tr
    ELSE LET t == Head(tests)
             o == Head(out)
             tr1 == CASE o = "pass" -> [tr EXCEPT !.passed = Append(@, t.name)]
                      [] o = "fail" /\ t.critical ->
                            [tr EXCEPT !.failed = Append(@, t.name),
                                       !.errors = Append(@, "CRITICO: " \o t.name),
                                       !.hasErrors = TRUE]
                      [] o = "fail" /\ ~t.critical ->
                            [tr EXCEPT !.failed = Append(@, t.name),
                                       !.warnings = Append(@, t.name)]
                      [] OTHER ->
                            [tr EXCEPT !.failed = Append(@, t.name),
                                       !.errors = Append(@, "Erro em " \o t.name),
                                       !.hasErrors = TRUE]
         IN  IF o = "throw" THEN tr1
             ELSE runTestSuite_StopsAtThrow(Tail(tests), Tail(out), tr1)

RECURSIVE runTestSuite(_, _, _)
\* runTestSuite: out[i] is what tests[i].test() does ("pass": truthy, "fail":
\* falsy, "throw")
runTestSuite(tests, out, tr) ==
    IF tests = << >> THEN tr
    ELSE LET t == Head(tests)
             o == Head(out)
             tr1 == CASE o = "pass" -> [tr EXCEPT !.passed = Append(@, t.name)]
                      [] o = "fail" /\ t.critical ->
                            [tr EXCEPT !.failed = Append(@, t.name),
                                       !.errors = Append(@, "CRITICO: " \o t.name),
                                       !.hasErrors = TRUE]
                      [] o = "fail" /\ ~t.critical ->
                            [tr EXCEPT !.failed = Append(@, t.name),
                                       !.warnings = Append(@, t.name)]
                      [] OTHER ->
                            [tr EXCEPT !.failed = Append(@, t.name),
                                       !.errors = Append(@, "Erro em " \o t.name),
                                       !.hasErrors = TRUE]
         IN  runTestSuite(Tail(tests), Tail(out), tr1)

\* a test function that yields a boolean
Verdict(b) == IF b THEN "pass" ELSE "fail"

\* verifyAnalysisQuality; d abstracts executionResult.deliverables
verifyAnalysisQuality(d, tr) ==
    runTestSuite(<< TestCase("Requisitos detalhados", TRUE),
                    TestCase("Tecnologias identificadas", FALSE),
                    TestCase("Estrutura de arquivos definida", FALSE),
                    TestCase("Dependencias listadas", FALSE) >>,
                 << Verdict(d.requirements = "filled"),
                    Verdict(d.technologies = "filled"),
                    Verdict(d.fileStructure = "filled"),
                    Verdict(d.dependencies = "filled") >>,
                 tr)

testAnalysis(d, tr) ==
    IF ~d.present
    THEN [tr EXCEPT !.errors = Append(@, "Deliverables nao foram criados")]
    ELSE verifyAnalysisQuality(d,
            runTestSuite(<< TestCase("Requisitos analisados", TRUE),
                            TestCase("Dependencias verificadas", TRUE),
                            TestCase("Estrutura preparada", FALSE) >>,
                         << Verdict(d.requirements # "undefined"),
                            Verdict(d.dependencyCheck # "undefined"),
                            Verdict(d.fileStructure # "undefined") >>,
                         tr))

\* what one of the verifications of testImplementation leaves in testResult
Probe(effect, text, tr) ==
    CASE effect = "passed" -> [tr EXCEPT !.passed = Append(@, text)]
      [] effect = "warning" -> [tr EXCEPT !.warnings = Append(@, text)]
      [] effect = "error" -> [tr EXCEPT !.errors = Append(@, text), !.hasErrors = TRUE]
      [] effect = "failedError" ->
            [tr EXCEPT !.failed = Append(@, text), !.errors = Append(@, text),
                       !.hasErrors = TRUE]
      [] OTHER -> tr

\* testImplementation; e abstracts what its verifications find
testImplementation(e, tr) ==
    LET tr1 == IF e.noFiles
               THEN [tr EXCEPT !.warnings = Append(@, "Nenhum arquivo foi criado ou modificado")]
               ELSE tr
        tr2 == Probe(e.syntax, "verifySyntax", tr1)
        tr3 == Probe(e.unitTests, "runUnitTests", tr2)
        tr4 == Probe(e.functionality, "verifyBasicFunctionality", tr3)
        tr5 == Probe(e.performance, "runPerformanceTests", tr4)
    IN  Probe(e.integration, "verifyIntegration", tr5)

testTesting(e, tr) ==
    runTestSuite(<< TestCase("Testes executaram sem erro", TRUE),
                    TestCase("Coverage minimo atingido", FALSE),
                    TestCase("Relatorio de testes gerado", FALSE) >>,
                 << Verdict(e.testsPassed), Verdict(e.coverageReached),
                    Verdict(e.testReport) >>,
                 tr)

testDocumentation(e, tr) ==
    runTestSuite(<< TestCase("Documentacao foi criada/atualizada", TRUE),
                    TestCase("README atualizado se necessario", FALSE),
                    TestCase("Comentarios no codigo atualizados", FALSE) >>,
                 << Verdict(e.documentationUpdated), Verdict(e.readmeUpdated),
                    Verdict(e.codeCommentsUpdated) >>,
                 tr)

\* the step kinds whose test method MCPTester defines
TestedKinds == {"analysis", "implementation", "testing", "documentation"}

\* How test(step, executionResult) leaves: `object` is the testResult as built
\* when it left.  The methods testInvestigation, testFix, testRefactor,
\* testValidation and testGeneral called by the switch are not defined, and
\* neither is calculateDuration, called after the final verification: each
\* call raises a TypeError that the catch block rethrows.
test(step, e) ==
    IF step.type \notin TestedKinds
    THEN [outcome |-> "thrown", error |-> "testKindNotAFunction", object |-> NewTestResult]
    ELSE LET tr1 == CASE step.type = "analysis" -> testAnalysis(e, NewTestResult)
                      [] step.type = "implementation" -> testImplementation(e, NewTestResult)
                      [] step.type = "testing" -> testTesting(e, NewTestResult)
                      [] OTHER -> testDocumentation(e, NewTestResult)
             hasErrors == Len(tr1.errors) > 0 \/ Len(tr1.failed) > 0
         IN  [outcome |-> "thrown", error |-> "calculateDurationNotAFunction",
              object |-> [tr1 EXCEPT !.hasErrors = hasErrors, !.canProceed = ~hasErrors]]

\* the names of the critical tests of the suites run by runTestSuite
CriticalTestNames ==
    {"Requisitos detalhados", "Requisitos analisados", "Dependencias verificadas",
     "Testes executaram sem erro", "Documentacao foi criada/atualizada"}

\* error.includes('CRITICO') || error.includes('Erro de sintaxe') ||
\* error.includes('Testes unitarios falharam'): the entries of errors written by
\* a failed critical test or by verifySyntax (runUnitTests writes 'Testes
\* unitarios falharam' to failed, 'Erro nos testes: ...' to errors)
IsCriticalError(text) ==
    \/ text = "verifySyntax"
    \/ \E name \in CriticalTestNames : text = "CRITICO: " \o name

\* MCPTester declares diagnose twice; the class keeps the later declaration,
\* diagnose(step, executionResult, testResult).  args is the list of the
\* arguments of a call: a parameter without an argument is undefined, and
\* reading testResult.errors of an undefined testResult raises a TypeError.
\* The diagnosis returned has the fields timestamp, step, issues,
\* recommendations and severity, and neither canAutoFix nor suggestedFix
\* ("undefined" below); issues lists the types of the entries (the one on
\* performance, which depends on a measured time, is left out; coverage is
\* null).
diagnose(args) ==
    IF Len(args) < 3
    THEN [outcome |-> "thrown", error |-> "testResultUndefined"]
    ELSE LET step == args[1]
             executionResult == args[2]
             tr == args[3]
             critical == \E i \in 1..Len(tr.errors) : IsCriticalError(tr.errors[i])
             warned == Len(tr.warnings) > 0
         IN  [outcome |-> "returned",
              diagnosis |->
                [step |-> step.id,
                 severity |-> IF critical THEN "high"
                              ELSE IF warned THEN "medium" ELSE "low",
                 issues |-> (IF critical THEN {"critical"} ELSE {})
                            \cup (IF warned THEN {"warning"} ELSE {})
                            \cup (IF step.type = "implementation" /\ executionResult.noFiles
                                  THEN {"implementation"} ELSE {})
                            \cup (IF step.type = "testing" /\ Len(tr.failed) > Len(tr.passed)
                                  THEN {"testing"} ELSE {}),
                 canAutoFix |-> "undefined",
                 suggestedFix |-> "undefined"]]

\* the ExecutionRecords (and what the verifications find) for a step kind
ExecutionRecords(kind) ==
    CASE kind = "analysis" ->
            {[present |-> FALSE, requirements |-> "undefined", dependencyCheck |-> "undefined",
              fileStructure |-> "undefined", technologies |-> "empty", dependencies |-> "empty"]}
            \cup [present : {TRUE},
                  requirements : {"undefined", "empty", "filled"},
                  dependencyCheck : {"undefined", "defined"},
                  fileStructure : {"undefined", "empty", "filled"},
                  technologies : {"empty", "filled"},
                  dependencies : {"empty", "filled"}]
      [] kind = "implementation" ->
            {e \in [noFiles : BOOLEAN,
                    syntax : {"none", "passed", "warning", "error"},
                    unitTests : {"none", "passed", "warning", "failedError"},
                    functionality : {"none", "passed", "failedError"},
                    performance : {"none", "passed", "warning"},
                    integration : {"none", "passed", "warning"}] :
                e.noFiles <=> e.syntax = "none"}
      [] kind = "testing" ->
            [testsPassed : BOOLEAN, coverageReached : BOOLEAN, testReport : BOOLEAN]
      [] kind = "documentation" ->
            [documentationUpdated : BOOLEAN, readmeUpdated : BOOLEAN,
             codeCommentsUpdated : BOOLEAN]
      [] OTHER -> {[completed |-> TRUE]}

TesterInit ==
    /\ LoopIdle
    /\ GateIdle
    /\ PlannerIdle
    /\ AnalyzerIdle
    /\ HandlerIdle
    /\ BatchIdle
    /\ \E kind \in StepKinds, id \in 1..4 :
          \E e \in ExecutionRecords(kind) :
             testerInput = <<[step |-> NewStep(id, kind), record |-> e]>>
    /\ testerExit = << >>
    /\ testHistory = << >>
    /\ diagnoseExit = << >>
    /\ suiteInput = << >>
    /\ suiteExit = << >>

\* one call test(step, executionResult)
TesterTest ==
    /\ testerExit = << >>
    /\ testerExit' = <<test(testerInput[1].step, testerInput[1].record)>>
    /\ testHistory' = IF testerExit'[1].outcome = "returned"
                      THEN Append(testHistory, testerExit'[1].object)
                      ELSE testHistory
    /\ UNCHANGED <<testerInput, diagnoseExit, suiteInput, suiteExit>>
    /\ UNCHANGED <<loopVars, gateVars, plannerVars, analyzerVars, libraryVars>>

\* One call of tester.diagnose on the testResult that test built, made when
\* that testResult has errors: either as executeTaskLoop makes it, with the
\* error list alone, or with the three arguments the method declares.
TesterDiagnose ==
    /\ testerExit # << >>
    /\ testerExit[1].object.hasErrors
    /\ diagnoseExit = << >>
    /\ \/ diagnoseExit' = <<diagnose(<<testerExit[1].object.errors>>)>>
       \/ diagnoseExit' = <<diagnose(<<testerInput[1].step, testerInput[1].record,
                                       testerExit[1].object>>)>>
    /\ UNCHANGED <<testerInput, testerExit, testHistory, suiteInput, suiteExit>>
    /\ UNCHANGED <<loopVars, gateVars, plannerVars, analyzerVars, libraryVars>>

TesterNext == TesterTest \/ TesterDiagnose

TesterSpec == TesterInit /\ [][TesterNext]_vars

\* ------------------------------------------- a check battery on its own
\* the batteries explored: up to MaxBattery checks, each critical or not
\* the names of the checks of a battery, one per position
CheckNames == [i \in 1..MaxBattery |-> "check " \o ToString(i)]

Batteries ==
    UNION {{[i \in 1..n |-> TestCase(CheckNames[i], critical[i])] :
               critical \in [1..n -> BOOLEAN]} : n \in 0..MaxBattery}

\* a testResult that already holds the entries of a battery run before
PriorTestResult ==
    [NewTestResult EXCEPT !.passed = <<"earlier passed">>,
                          !.failed = <<"earlier failed">>,
                          !.warnings = <<"earlier failed">>]

SuiteInit ==
    /\ LoopIdle
    /\ GateIdle
    /\ PlannerIdle
    /\ AnalyzerIdle
    /\ HandlerIdle
    /\ BatchIdle
    /\ testerInput = << >>
    /\ testerExit = << >>
    /\ testHistory = << >>
    /\ diagnoseExit = << >>
    /\ \E tests \in Batteries, tr \in {NewTestResult, PriorTestResult} :
          \E out \in [1..Len(tests) -> {"pass", "fail", "throw"}] :
             suiteInput = <<[tests |-> tests, out |-> out, testResult |-> tr]>>
    /\ suiteExit = << >>

\* one call runTestSuite(tests, testResult); the loop has no statement that
\* leaves it, so the call returns and testResult is what the loop made of it
SuiteRun ==
    /\ suiteExit = << >>
    /\ suiteExit' = <<[outcome |-> "returned",
                       testResult |-> runTestSuite(suiteInput[1].tests, suiteInput[1].out,
                                                   suiteInput[1].testResult)]>>
    /\ UNCHANGED <<testerInput, testerExit, testHistory, diagnoseExit, suiteInput>>
    /\ UNCHANGED <<loopVars, gateVars, plannerVars, analyzerVars, libraryVars>>

SuiteNext == SuiteRun

SuiteSpec == SuiteInit /\ [][SuiteNext]_vars

\* ------------------------------------------- the MAX_RETRIES setting
\* the values of process.env.MAX_RETRIES explored: the variable unset, a text
\* that is not a number, zero, a negative number, the numbers up to
\* MaxCeiling, and a number with a fraction
Settings == {"unset", "abc", "0", "-1", "1", "2", "3", "2.5"}

\* parseInt(process.env.MAX_RETRIES): << >> stands for NaN
parseInt(setting) ==
    CASE setting \in {"unset", "abc"} -> << >>
      [] setting = "0" -> <<0>>
      [] setting = "-1" -> <<-1>>
      [] setting = "1" -> <<1>>
      [] setting \in {"2", "2.5"} -> <<2>>
      [] OTHER -> <<3>>

\* this.maxRetries = parseInt(process.env.MAX_RETRIES) || 3: NaN and 0 are
\* falsy, every other number is kept
effectiveMaxRetries(setting) ==
    LET parsed == parseInt(setting)
    IN  IF parsed = << >> \/ parsed = <<0>> THEN 3 ELSE parsed[1]

\* the controller as constructed under a MAX_RETRIES setting, with a plan
EnvInit ==
    /\ \E taskType \in TaskTypes : taskSteps = createTaskSteps(taskType)
    /\ currentStepIndex = 0
    /\ \E setting \in Settings : maxRetries = effectiveMaxRetries(setting)
    /\ autoFix \in BOOLEAN
    /\ pc = "outer"
    /\ retryCount = 0
    /\ stepCompleted = FALSE
    /\ testResult = << >>
    /\ diagnostic = << >>
    /\ validationResult = << >>
    /\ error = "none"
    /\ attempts = 0
    /\ rejections = 0
    /\ approvedSteps = {}
    /\ GateIdle
    /\ TesterIdle
    /\ PlannerIdle
    /\ AnalyzerIdle
    /\ HandlerIdle
    /\ BatchIdle

EnvSpec == EnvInit /\ [][Next]_vars

\* -------------------------------------- validateMultipleSteps on its own
\* What is handed to validateMultipleSteps for one step: the triple
\* (steps[i], executionResults[i], testResults[i]) and whether validate
\* throws on it.  The triples explored are those on which every check passes
\* and those on which every check fails.
BatchItem(step, choice) ==
    [input |-> [step |-> step,
                rec |-> [i \in 1..Len(Rubric(step.type)) |->
                            IF choice = "reject" THEN "fail" ELSE "pass"],
                fileCheck |-> "none",
                tr |-> CheckRecord(choice # "reject", choice # "reject")],
     throws |-> choice = "throw"]

\* the lists explored: the plan of a task, each step with one of the choices
Batches ==
    UNION {{[i \in 1..Len(createTaskSteps(taskType)) |->
                BatchItem(createTaskSteps(taskType)[i], choice[i])] :
              choice \in [1..Len(createTaskSteps(taskType)) ->
                             {"approve", "reject", "throw"}]} :
           taskType \in TaskTypes}

RECURSIVE validateMultipleSteps_NoBreak(_, _, _)
\* variant of validateMultipleSteps without the break after a step that is
\* not approved
validateMultipleSteps_NoBreak(items, i, clock) ==
    IF i > Len(items) THEN << >>
    ELSE IF items[i].throws
         THEN <<[stepId |-> items[i].input.step.id, approved |-> FALSE,
                 error |-> "thrown"]>>
         ELSE <<validateAt(items[i].input, clock)>>
              \o validateMultipleSteps_NoBreak(items, i + 1, clock)

RECURSIVE validateMultipleSteps(_, _, _)
\* validateMultipleSteps from index i on: the list of validations it pushes
validateMultipleSteps(items, i, clock) ==
    IF i > Len(items) THEN << >>
    ELSE IF items[i].throws
         THEN <<[stepId |-> items[i].input.step.id, approved |-> FALSE,
                 error |-> "thrown"]>>
         ELSE LET validation == validateAt(items[i].input, clock)
              IN  IF ~validation.approved
                  THEN <<validation>>
                  ELSE <<validation>> \o validateMultipleSteps(items, i + 1, clock)

BatchInit ==
    /\ LoopIdle
    /\ GateIdle
    /\ TesterIdle
    /\ PlannerIdle
    /\ AnalyzerIdle
    /\ HandlerIdle
    /\ batchInput \in {<<items>> : items \in Batches}
    /\ batchExit = << >>

\* one call validateMultipleSteps(steps, executionResults, testResults); each
\* validate that returned has pushed its result to validationHistory
BatchValidate ==
    /\ batchExit = << >>
    /\ LET items == batchInput[1]
           validations == validateMultipleSteps(items, 1, now)
           returned == {k \in 1..Len(validations) : ~items[k].throws}
       IN  /\ batchExit' = <<validations>>
           /\ validationHistory' = [k \in 1..Cardinality(returned) |-> validations[k]]
           /\ validateInputs' = [k \in 1..Cardinality(returned) |-> items[k].input]
    /\ UNCHANGED <<gateInput, now, batchInput>>
    /\ UNCHANGED <<loopVars, testerVars, plannerVars, analyzerVars, handlerVars>>

BatchNext == BatchValidate

BatchSpec == BatchInit /\ [][BatchNext]_vars

\* --------------------------------------------- the ErrorHandler on its own
\* setupDefaultStrategies, and the fallback of handleWithRetry for a name
\* that has no strategy; retryable lists the errors shouldRetry accepts
RetryStrategy(strategyName) ==
    CASE strategyName = "network" ->
            [maxRetries |-> 3, retryable |-> {"ECONNREFUSED", "ETIMEDOUT"}]
      [] strategyName = "file" ->
            [maxRetries |-> 2, retryable |-> {"ENOENT", "EACCES"}]
      [] strategyName = "dependency" ->
            [maxRetries |-> 3, retryable |-> {"MODULE_NOT_FOUND"}]
      [] OTHER ->
            [maxRetries |-> 1, retryable |-> {}]

\* strategy.shouldRetry(error)
shouldRetry(strategyName, err) == err \in RetryStrategy(strategyName).retryable

\* the names handleWithRetry is called with; 'default' is the default of the
\* parameter and has no strategy
StrategyNames == {"network", "file", "dependency", "default"}

\* what one invocation of the operation does: it returns, or throws an error
\* with that code or message
OperationOutcomes == {"ok", "ECONNREFUSED", "ENOENT", "MODULE_NOT_FOUND"}

HandlerInit ==
    /\ LoopIdle
    /\ GateIdle
    /\ TesterIdle
    /\ PlannerIdle
    /\ AnalyzerIdle
    /\ BatchIdle
    /\ \E strategyName \in StrategyNames,
          out \in [1..MaxInvocations -> OperationOutcomes] :
             handlerInput = <<[strategyName |-> strategyName, out |-> out]>>
    /\ handlerPc = "while"
    /\ attempt = 0
    /\ lastError = << >>
    /\ errorHistory = << >>
    /\ invocations = 0
    /\ handlerExit = << >>

\* variant of HandlerAttempt that retries whatever the error
HandlerAttempt_RetriesAnyError ==
    /\ handlerPc = "while"
    /\ LET strategyName == handlerInput[1].strategyName
           strategy == RetryStrategy(strategyName)
       IN  IF attempt <= strategy.maxRetries
           THEN /\ invocations' = invocations + 1
                /\ LET o == handlerInput[1].out[invocations']
                   IN  IF o = "ok"
                       THEN /\ handlerExit' = <<[outcome |-> "returned",
                                                 result |-> invocations']>>
                            /\ handlerPc' = "done"
                            /\ UNCHANGED <<attempt, lastError, errorHistory>>
                       ELSE /\ lastError' = <<o>>
                            /\ attempt' = attempt + 1
                            /\ errorHistory' =
                                  Append(errorHistory,
                                         [code |-> o, attempt |-> attempt',
                                          strategy |-> strategyName])
                            /\ handlerPc' = IF attempt' > strategy.maxRetries
                                            THEN "after" ELSE "while"
                            /\ UNCHANGED handlerExit
           ELSE /\ handlerPc' = "after"
                /\ UNCHANGED <<attempt, lastError, errorHistory, invocations, handlerExit>>
    /\ UNCHANGED <<handlerInput, batchVars>>
    /\ UNCHANGED <<loopVars, gateVars, testerVars, plannerVars, analyzerVars>>

\* One turn of `while (attempt <= strategy.maxRetries)`: the operation is
\* invoked; when it returns, handleWithRetry returns its result; when it
\* throws, the error is recorded and the loop is left (break) or, after the
\* sleep, taken again.
HandlerAttempt ==
    /\ handlerPc = "while"
    /\ LET strategyName == handlerInput[1].strategyName
           strategy == RetryStrategy(strategyName)
       IN  IF attempt <= strategy.maxRetries
           THEN /\ invocations' = invocations + 1
                /\ LET o == handlerInput[1].out[invocations']
                   IN  IF o = "ok"
                       THEN /\ handlerExit' = <<[outcome |-> "returned",
                                                 result |-> invocations']>>
                            /\ handlerPc' = "done"
                            /\ UNCHANGED <<attempt, lastError, errorHistory>>
                       ELSE /\ lastError' = <<o>>
                            /\ attempt' = attempt + 1
                            /\ errorHistory' =
                                  Append(errorHistory,
                                         [code |-> o, attempt |-> attempt',
                                          strategy |-> strategyName])
                            /\ handlerPc' = IF \/ ~shouldRetry(strategyName, o)
                                               \/ attempt' > strategy.maxRetries
                                            THEN "after" ELSE "while"
                            /\ UNCHANGED handlerExit
           ELSE /\ handlerPc' = "after"
                /\ UNCHANGED <<attempt, lastError, errorHistory, invocations, handlerExit>>
    /\ UNCHANGED <<handlerInput, batchVars>>
    /\ UNCHANGED <<loopVars, gateVars, testerVars, plannerVars, analyzerVars>>

\* throw new Error(`Operacao falhou apos ${attempt} tentativas: ...`)
HandlerThrow ==
    /\ handlerPc = "after"
    /\ handlerExit' = <<[outcome |-> "thrown", attempts |-> attempt,
                         message |-> lastError[1]]>>
    /\ handlerPc' = "done"
    /\ UNCHANGED <<handlerInput, attempt, lastError, errorHistory, invocations, batchVars>>
    /\ UNCHANGED <<loopVars, gateVars, testerVars, plannerVars, analyzerVars>>

HandlerNext == HandlerAttempt \/ HandlerThrow

HandlerSpec == HandlerInit /\ [][HandlerNext]_vars

\* ------------------------------------------------ the planner on its own
\* the substrings analyzeTaskInContext looks for in the lower-cased description
Keywords ==
    {"criar", "adicionar", "implementar", "corrigir", "bug", "erro", "melhorar",
     "otimizar", "refatorar", "testar", "teste", "documentar", "documentacao"}

\* the number of characters of a keyword
KeywordLength(k) ==
    CASE k = "bug" -> 3
      [] k = "erro" -> 4
      [] k \in {"criar", "teste"} -> 5
      [] k = "testar" -> 6
      [] k \in {"corrigir", "melhorar", "otimizar"} -> 8
      [] k \in {"adicionar", "refatorar"} -> 9
      [] k = "documentar" -> 10
      [] k = "implementar" -> 11
      [] OTHER -> 12

RECURSIVE TotalLength(_)
\* the characters taken by the keywords of K written one after the other,
\* a space between two
TotalLength(K) ==
    IF K = {} THEN 0
    ELSE LET k == CHOOSE x \in K : TRUE
         IN  KeywordLength(k) + (IF K = {k} THEN 0 ELSE 1 + TotalLength(K \ {k}))

\* the values of description.trim().length explored: empty, short, at the
\* limit of the prompt's test (length > 10), just over it, long
DescriptionLengths == {0, 5, 10, 11, 40}

\* A task description: its text, the length of its trimmed text and the
\* keywords its lower-cased text includes.  None of the keywords is a
\* substring of "fix the null pointer on endpoint x".
ScenarioA ==
    [text |-> "fix the null pointer on endpoint X", trimmedLength |-> 34, includes |-> {}]

Descriptions ==
    {ScenarioA} \cup
    {d \in [text : {"other"}, trimmedLength : DescriptionLengths,
            includes : {K \in SUBSET Keywords : Cardinality(K) <= MaxKeywords}] :
        TotalLength(d.includes) <= d.trimmedLength}

\* the if / else-if chain on taskKeywords.includes(...)
keywordTaskType(description) ==
    IF description.includes \cap {"criar", "adicionar", "implementar"} # {} THEN "creation"
    ELSE IF description.includes \cap {"corrigir", "bug", "erro"} # {} THEN "bugfix"
    ELSE IF description.includes \cap {"melhorar", "otimizar", "refatorar"} # {} THEN "improvement"
    ELSE IF description.includes \cap {"testar", "teste"} # {} THEN "testing"
    ELSE IF description.includes \cap {"documentar", "documentacao"} # {} THEN "documentation"
    ELSE "general"

\* analyzeTaskInContext: the object literal it starts with evaluates
\* this.identifyTaskType(task.description); MCPOrchestrator defines no
\* identifyTaskType, so the call raises a TypeError before the chain on the
\* keywords runs
analyzeTaskInContext(description) ==
    [outcome |-> "thrown", error |-> "identifyTaskTypeNotAFunction"]

\* orchestrateTask: this.taskSteps is assigned only if analyzeTaskInContext
\* returned; the catch block rethrows
orchestrateTask(description, steps) ==
    LET analysis == analyzeTaskInContext(description)
    IN  IF analysis.outcome = "thrown"
        THEN [outcome |-> "thrown", error |-> analysis.error, taskSteps |-> steps]
        ELSE [outcome |-> "thrown", error |-> "validateTaskStepsNotAFunction",
              taskSteps |-> createTaskSteps(analysis.taskType)]

PlannerInit ==
    /\ LoopIdle
    /\ GateIdle
    /\ TesterIdle
    /\ AnalyzerIdle
    /\ HandlerIdle
    /\ BatchIdle
    /\ plannerInput \in {<<d>> : d \in Descriptions}
    /\ plannerExit = << >>

\* one call orchestrateTask(task)
OrchestrateTask ==
    /\ plannerExit = << >>
    /\ LET r == orchestrateTask(plannerInput[1], taskSteps)
       IN  /\ taskSteps' = r.taskSteps
           /\ plannerExit' = <<[outcome |-> r.outcome, error |-> r.error]>>
    /\ UNCHANGED plannerInput
    /\ UNCHANGED <<currentStepIndex, maxRetries, autoFix, pc, retryCount,
                   stepCompleted, testResult, diagnostic, validationResult, error,
                   attempts, rejections, approvedSteps>>
    /\ UNCHANGED <<gateVars, testerVars, analyzerVars, libraryVars>>

PlannerNext == OrchestrateTask

PlannerSpec == PlannerInit /\ [][PlannerNext]_vars

\* ------------------------------------------------------------ properties
Terminated == pc \in {"returned", "thrown"}

\* the criteria of step type `type` that did not pass in validation result v
FailedCritical(type, v) ==
    {i \in 1..Len(Rubric(type)) : Rubric(type)[i].critical /\ v.reasons[i].mark # "ok"}

\* C1: every run of executeTaskLoop eventually terminates, either by returning
\* (Completed) or by throwing (Aborted); it never runs forever.
C1_EventuallyTerminates == <>Terminated

\* C2: the number of analyzer.execute invocations on a step never exceeds the
\* retry ceiling, attempts that follow an applied auto-fix included.
C2_AttemptsWithinCeiling == attempts <= maxRetries

\* C3: when every retry consumed on a step is a rejected validation, the loop
\* aborts exactly at the R-th rejection (R = maxRetries), never at an earlier one.
C3_AbortsAtCeilingRejection ==
    (pc = "thrown" /\ rejections > 0 /\ retryCount = rejections)
        => rejections = maxRetries

\* C4: a step has status completed only if the gate returned approved = true
\* for an attempt of that same step.
C4_CompletedOnlyIfApproved ==
    \A i \in 1..Len(taskSteps) :
        taskSteps[i].status = "completed" => taskSteps[i].id \in approvedSteps

\* C4 witness: a step was completed by an approval and a later attempt failed.
C4_Witness ==
    /\ pc = "thrown"
    /\ \E i \in 1..Len(taskSteps) : taskSteps[i].status = "completed"

\* C5: the gate is invoked, and a step marked completed, only on an attempt
\* whose CheckRecord has hasErrors = false (errors and failed both empty); an
\* attempt whose CheckRecord has hasErrors = true goes to diagnosis, never on
\* to documentation or validation.
C5_NoAdvanceWithCheckErrors ==
    /\ [](/\ (pc \in {"document", "validate", "decide"} \/ validationResult # << >>
                  \/ stepCompleted)
                => /\ testResult # << >>
                   /\ ~testResult[1].hasErrors
                   /\ testResult[1].errorsEmpty
                   /\ testResult[1].failedEmpty
          /\ (testResult # << >> /\ (~testResult[1].errorsEmpty \/ ~testResult[1].failedEmpty))
                => /\ testResult[1].hasErrors
                   /\ pc \in {"diagnose", "applyFix", "catch", "sleep", "thrown", "inner", "outer"}
                   /\ validationResult = << >>)
    /\ [][(testResult' # testResult /\ testResult' # << >> /\ testResult'[1].hasErrors)
            => pc' = "diagnose"]_vars
    /\ [][taskSteps' # taskSteps => (testResult # << >> /\ ~testResult[1].hasErrors)]_vars

\* C5 witness: the step is being validated on an attempt with a clean
\* CheckRecord after an earlier attempt of it had check errors and was fixed.
C5_Witness ==
    /\ pc = "decide"
    /\ retryCount > 0
    /\ ~testResult[1].hasErrors

\* C6: if validate returns approved = true then no critical criterion of the
\* step kind's rubric failed.
C6_ApprovedImpliesNoCriticalFailure ==
    (validationResult # << >> /\ validationResult[1].approved)
        => FailedCritical(taskSteps[validationResult[1].stepId].type, validationResult[1]) = {}

\* C7: a step that has been marked completed is never executed again.
C7_CompletedNeverReexecuted ==
    pc = "execute" => currentStep.status # "completed"

\* C8: the completed steps form a prefix of the step list.
C8_CompletedIsPrefix ==
    \A i \in 1..Len(taskSteps), j \in 1..Len(taskSteps) :
        (i < j /\ taskSteps[j].status = "completed") => taskSteps[i].status = "completed"

\* C8 witness: the first two steps are completed and the last one is not.
C8_Witness ==
    /\ taskSteps[2].status = "completed"
    /\ taskSteps[Len(taskSteps)].status = "pending"

\* C9: the cursor stays within 0..N-1 and every change of it is an increment by
\* exactly one, taken right after the gate approved the step at the cursor.
C9_CursorStepsByOne ==
    /\ [](currentStepIndex \in 0..(Len(taskSteps) - 1))
    /\ [][currentStepIndex' # currentStepIndex =>
            /\ currentStepIndex' = currentStepIndex + 1
            /\ pc = "decide"
            /\ validationResult[1].approved
            /\ validationResult[1].stepId = currentStep.id
            /\ taskSteps'[currentStepIndex + 1].status = "completed"]_vars

\* C9 witness: the cursor has advanced to the last step.
C9_Witness ==
    /\ currentStepIndex = Len(taskSteps) - 1
    /\ pc = "execute"

C11_RetriesBelowCeiling == pc = "thrown" => retryCount >= maxRetries

\* C12: when the task's auto-fix flag is false the controller never enters
\* Fixing (applyFix is never invoked, whatever the diagnosis reports) and a
\* check error makes the attempt fail: diagnosis is followed by the catch block.
C12_NoFixingWithoutAutoFix ==
    /\ [](~autoFix => pc # "applyFix")
    /\ [][(~autoFix /\ pc = "diagnose") => (pc' = "catch" /\ retryCount' = retryCount)]_vars

\* C12 witness: auto-fix is off, the diagnosis reported the errors as
\* auto-fixable, and the attempt failed instead of being fixed.
C12_Witness ==
    /\ ~autoFix
    /\ pc = "catch"
    /\ error = "notFixable"
    /\ diagnostic # << >>
    /\ diagnostic[1].canAutoFix

\* C13: for every ValidationResult returned by validate, qualityScore is an
\* integer in 0..100, and approved = true implies qualityScore >= 70.
C13_ScoreRangeAndApprovalFloor ==
    \A k \in 1..Len(validationHistory) :
        /\ validationHistory[k].qualityScore \in 0..100
        /\ validationHistory[k].approved => validationHistory[k].qualityScore >= 70

\* C13 witness: validate returned an approved result with a score strictly
\* between the floor and 100 although one of its check functions threw, and
\* a rejected result with a score of 0.
C13_Witness ==
    /\ \E k \in 1..Len(validationHistory) :
          /\ validationHistory[k].approved
          /\ validationHistory[k].qualityScore \in 70..99
          /\ \E i \in DOMAIN validateInputs[k].rec : validateInputs[k].rec[i] = "throw"
    /\ \E k \in 1..Len(validationHistory) :
          /\ validationHistory[k].qualityScore = 0
          /\ ~validationHistory[k].approved

\* C14: for an Investigation step whose ExecutionRecord deliverables lack
\* rootCause (the check 'Causa raiz identificada', third of the rubric, yields
\* false), validate returns approved = false with qualityScore < 70, whatever
\* the other criteria evaluate to.
C14_MissingRootCauseRejected ==
    \A k \in 1..Len(validationHistory) :
        (validateInputs[k].step.type = "investigation" /\ validateInputs[k].rec[3] = "fail")
            => (~validationHistory[k].approved /\ validationHistory[k].qualityScore < 70)

\* C15: for an Implementation step that created and modified no file, whose
\* CheckRecord has no error and no failed entry and whose other three criteria
\* pass, the 'Arquivos criados/modificados' criterion (first of the rubric,
\* weight 25) fails as a non-critical criterion: the result has a score of 75,
\* no failed critical criterion, and is approved.
C15_ZeroFilesNonCriticalApproved ==
    \A k \in 1..Len(validationHistory) :
        (/\ validateInputs[k].step.type = "implementation"
         /\ validateInputs[k].rec = <<"fail", "pass", "pass", "pass">>
         /\ validateInputs[k].fileCheck = "none"
         /\ ~validateInputs[k].tr.hasErrors)
            => /\ validationHistory[k].reasons[1].mark = "fail"
               /\ validationHistory[k].qualityScore = 75
               /\ validationHistory[k].approved
               /\ FailedCritical("implementation", validationHistory[k]) = {}

\* C16: for every step kind, a call of MCPTester.test returns a CheckRecord,
\* and the record satisfies hasErrors = (errors is non-empty or failed is
\* non-empty) and canProceed = not hasErrors.
C16_CheckRecordFlags ==
    testerExit # << >> =>
        /\ testerExit[1].outcome = "returned"
        /\ testerExit[1].object.hasErrors
              = (testerExit[1].object.errors # << >> \/ testerExit[1].object.failed # << >>)
        /\ testerExit[1].object.canProceed = ~testerExit[1].object.hasErrors

\* the fields of a ValidationResult other than the clock reading
SameButTimestamp(v, w) ==
    /\ DOMAIN v = DOMAIN w
    /\ \A f \in DOMAIN v \ {"timestamp"} : v[f] = w[f]

C18_PlanShape ==
    /\ Len(taskSteps) >= 2
    /\ \A i \in 1..Len(taskSteps) :
          /\ taskSteps[i].id = i
          /\ taskSteps[i].type = "analysis" <=> i = 1
          /\ taskSteps[i].type = "validation" <=> i = Len(taskSteps)

\* C18 witness: the loop is executing the third step of the four-step plan of
\* a bugfix task.
C18_Witness ==
    /\ Len(taskSteps) = 4
    /\ taskSteps[2].type = "investigation"
    /\ taskSteps[3].type = "fix"
    /\ currentStepIndex = 2
    /\ pc = "execute"

\* C19: the task description "fix the null pointer on endpoint X" is classified
\* bugfix, and orchestrateTask plans it as the step list
\* [analysis, investigation, fix, validation].
C19_ScenarioAPlan ==
    (plannerExit # << >> /\ plannerInput[1] = ScenarioA)
        => /\ keywordTaskType(plannerInput[1]) = "bugfix"
           /\ Len(taskSteps) = 4
           /\ [i \in 1..4 |-> taskSteps[i].type]
                 = <<"analysis", "investigation", "fix", "validation">>

\* the positions of the loop between two attempts: the loop tests and the
\* pause before a retry
BetweenAttempts == {"outer", "inner", "sleep"}

\* C20: external cancellation (SIGINT / SIGTERM) takes effect only between
\* attempts, never while an attempt is in flight; the step at the cursor is
\* left not completed and no ValidationResult is held for the attempt.
C20_CancelOnlyBetweenAttempts ==
    [][pc' = "exited" =>
          /\ pc \in BetweenAttempts
          /\ currentStep.status # "completed"
          /\ validationResult' = << >>]_vars

\* C21: the controller begins the next step only if the ValidationResult of
\* the current step has nextStepApproved = true: the cursor never advances on
\* a result whose nextStepApproved is false.
C21_AdvanceNeedsNextStepApproved ==
    [][currentStepIndex' # currentStepIndex =>
          (validationResult # << >> /\ validationResult[1].nextStepApproved)]_vars

\* C22: planning a task whose description is empty or shorter than the
\* minimum length (10 characters after trimming) fails with an InvalidTask
\* error before any step is created: orchestrateTask leaves taskSteps empty.
C22_ShortDescriptionInvalidTask ==
    (plannerExit # << >> /\ plannerInput[1].trimmedLength < 10)
        => /\ plannerExit[1].outcome = "thrown"
           /\ plannerExit[1].error = "InvalidTask"
           /\ taskSteps = << >>

\* C23: the documentation sink is not consulted for control decisions: whether
\* documentor.document succeeds or throws, the attempt goes on to validation
\* with the same retry counter, step status and cursor, and a failure of the
\* sink is never the error that the catch block counts or that aborts the run.
C23_DocumentNotConsulted ==
    /\ [][pc = "document" =>
            /\ pc' = "validate"
            /\ retryCount' = retryCount
            /\ stepCompleted' = stepCompleted
            /\ currentStepIndex' = currentStepIndex]_vars
    /\ [][(pc \in {"catch", "sleep"} /\ error = "document") =>
            (retryCount' = retryCount /\ pc' # "thrown")]_vars

\* C24: within an attempt the documentation sink receives (step,
\* ExecutionRecord, CheckRecord) only after the ValidationGate has produced
\* its result for that attempt: the controller is at the call of
\* documentor.document only with the ValidationResult of the attempt at hand.
C24_DocumentAfterValidation ==
    pc = "document" => validationResult # << >>

\* C25: the Fixing transition is reachable through the Diagnoser the
\* controller actually calls: tester.diagnose called with the CheckRecord's
\* error list alone returns a diagnosis (one that can report canAutoFix = true
\* is among them), on which the controller then decides.
C25_DiagnoseWithErrorListReturns ==
    diagnoseExit # << >> => diagnoseExit[1].outcome = "returned"

\* C26: every failed attempt consumes exactly one retry.  An attempt that
\* fails ends either in the catch block or with an applied fix; each of the
\* two adds exactly one to the retry counter, arriving at the catch block adds
\* nothing (so an auto-fix that throws is counted once, by the catch block),
\* and nothing else changes the counter but the start of a step, which sets it
\* to zero.
C26_OneRetryPerFailedAttempt ==
    /\ [][pc = "catch" =>
            (retryCount' = retryCount + 1 /\ pc' \in {"sleep", "thrown"})]_vars
    /\ [][(pc = "applyFix" /\ pc' # "catch") =>
            (retryCount' = retryCount + 1 /\ pc' = "inner")]_vars
    /\ [][pc' = "catch" => retryCount' = retryCount]_vars
    /\ [][retryCount' # retryCount =>
            \/ pc \in {"catch", "applyFix"}
            \/ pc = "outer" /\ retryCount' = 0]_vars
    /\ [][(pc = "decide" /\ ~validationResult[1].approved) => pc' = "catch"]_vars
    /\ [][(pc = "diagnose" /\ pc' # "applyFix") => pc' = "catch"]_vars

\* a fix was applied on the first attempt and the gate rejected the second:
\* two retries consumed by two failed attempts
C26_Witness ==
    /\ pc = "thrown"
    /\ error = "rejected"
    /\ attempts = 2
    /\ retryCount = 2

\* C27: within one attempt the collaborators are invoked in the fixed order
\* StageExecutor, CheckRunner, then either Diagnoser (check errors) or
\* ValidationGate (no check errors), each at most once and only if the
\* previous one returned without throwing; when the StageExecutor throws,
\* neither the CheckRunner nor the ValidationGate is invoked for that attempt.
C27_CollaboratorOrder ==
    /\ [][pc' = "execute" => pc = "inner"]_vars
    /\ [][pc' = "test" => (pc = "execute" /\ error' = error)]_vars
    /\ [][pc' = "diagnose" =>
            (pc = "test" /\ error' = error /\ testResult'[1].hasErrors)]_vars
    /\ [][pc' = "validate" =>
            (pc = "document" /\ testResult # << >> /\ ~testResult[1].hasErrors)]_vars
    /\ [][pc' = "document" =>
            (pc = "test" /\ error' = error /\ ~testResult'[1].hasErrors)]_vars
    /\ [][(pc = "execute" /\ error' = "execute") => pc' = "catch"]_vars
    /\ [][pc = "catch" => pc' \in {"sleep", "thrown"}]_vars
    /\ [][pc = "sleep" => pc' = "thrown"]_vars
    /\ [][(pc \in {"catch", "sleep", "thrown"} /\ error = "execute") =>
            (testResult = << >> /\ validationResult = << >>)]_vars

\* the StageExecutor threw on the second attempt of a step, after an applied fix
C27_Witness ==
    /\ pc = "catch"
    /\ error = "execute"
    /\ attempts = 2
    /\ testResult = << >>
    /\ validationResult = << >>

\* C28: the retry counter is zero at the first attempt of every step: entering
\* a step sets it to zero whatever the earlier steps consumed, and the first
\* call of analyzer.execute on a step is made with the counter at zero.
C28_FreshCounterPerStep ==
    /\ [][(pc = "outer" /\ pc' = "inner") => retryCount' = 0]_vars
    /\ [][(pc' = "execute" /\ attempts' = 0) => retryCount' = 0]_vars

\* the loop is about to enter a later step, the step before having consumed a
\* retry
C28_Witness ==
    /\ pc = "outer"
    /\ currentStepIndex >= 1
    /\ currentStepIndex < Len(taskSteps)
    /\ stepCompleted
    /\ retryCount >= 1

\* the criterion called name of the rubric of a step kind passed in result v
CriterionPassed(type, v, name) ==
    \E k \in 1..Len(Rubric(type)) :
        Rubric(type)[k].name = name /\ v.reasons[k].mark = "ok"

\* C29: for every ValidationResult, nextStepApproved = approved AND the
\* kind-specific condition: for Analysis, qualityScore >= 80; for
\* Implementation, the 'Funcionalidade basica' criterion passed; for Fix, the
\* 'Problema original resolvido' criterion passed; for every other kind, no
\* extra condition.
C29_NextStepApproved ==
    \A i \in 1..Len(validationHistory) :
        LET v == validationHistory[i]
            type == validateInputs[i].step.type
        IN  v.nextStepApproved <=>
              /\ v.approved
              /\ CASE type = "analysis" -> v.qualityScore >= AnalysisNextScore
                   [] type = "implementation" ->
                        CriterionPassed(type, v, "Funcionalidade basica")
                   [] type = "fix" ->
                        CriterionPassed(type, v, "Problema original resolvido")
                   [] OTHER -> TRUE

\* C30: the confidence tier of every ValidationResult is 'high' exactly when
\* qualityScore >= 90 and no critical criterion failed, 'medium' exactly when
\* 70 <= qualityScore < 90 and no critical criterion failed, and 'low' in
\* every other case, in particular whenever any critical criterion failed.
C30_ConfidenceTier ==
    \A i \in 1..Len(validationHistory) :
        LET v == validationHistory[i]
            noCriticalFailed == FailedCritical(validateInputs[i].step.type, v) = {}
        IN  v.confidence =
              IF v.qualityScore >= HighConfidenceScore /\ noCriticalFailed THEN "high"
              ELSE IF v.qualityScore >= MinApprovalScore /\ noCriticalFailed THEN "medium"
              ELSE "low"

\* the record in which every check function that throws returns false instead
ThrowAsFail(rec) == [i \in DOMAIN rec |-> IF rec[i] = "throw" THEN "fail" ELSE rec[i]]

\* C31: a rubric criterion whose check function throws is treated exactly as a
\* criterion that failed: the qualityScore and the approved flag of every
\* ValidationResult equal those of the result for the same step and records
\* with the throwing checks returning false.
C31_ThrowTreatedAsFailed ==
    \A i \in 1..Len(validationHistory) :
        LET v == validationHistory[i]
            x == validateInputs[i]
            w == validate(x.step, ThrowAsFail(x.rec), x.fileCheck, x.tr)
        IN  v.qualityScore = w.qualityScore /\ v.approved = w.approved

\* the elements of a list
Entries(list) == {list[k] : k \in 1..Len(list)}

\* C32: in a check battery a check that throws is added to failed and its
\* exception text to errors, the exception is not propagated, and every later
\* check of the battery is still evaluated: the entries of passed plus failed
\* contributed by a battery are as many as its checks, one per check.
C32_BatteryIsolatesThrows ==
    suiteExit # << >> =>
        LET in == suiteInput[1]
            before == in.testResult
            after == suiteExit[1].testResult
            n == Len(in.tests)
        IN  /\ suiteExit[1].outcome = "returned"
            /\ (Len(after.passed) + Len(after.failed))
                  = (Len(before.passed) + Len(before.failed)) + n
            /\ \A i \in 1..n :
                  /\ in.out[i] = "pass" <=> in.tests[i].name \in Entries(after.passed)
                  /\ in.out[i] # "pass" <=> in.tests[i].name \in Entries(after.failed)
                  /\ in.out[i] = "throw" <=>
                        ("Erro em " \o in.tests[i].name) \in Entries(after.errors)
            /\ (\E i \in 1..n : in.out[i] = "throw") => after.hasErrors

\* the first check of a battery of three threw, the second passed and the
\* third failed
C32_Witness ==
    /\ suiteExit # << >>
    /\ suiteInput[1].out = <<"throw", "pass", "fail">>
    /\ suiteExit[1].testResult.passed = <<"check 2">>
    /\ suiteExit[1].testResult.failed = <<"check 1", "check 3">>

\* the kinds of the steps between the first and the last step of a plan
MiddleKinds(steps) == [i \in 1..(Len(steps) - 2) |-> steps[i + 1].type]

\* C33: each task class maps to one fixed template of middle steps between
\* the Analysis and Validation steps: creation -> [implementation], bugfix ->
\* [investigation, fix] in that order, improvement -> [refactor], testing ->
\* [testing], documentation -> [documentation], general -> [general]; the plan
\* the loop runs is the plan of one of the classes.
C33_FixedTemplates ==
    LET Template(taskType) ==
            CASE taskType = "creation" -> <<"implementation">>
              [] taskType = "bugfix" -> <<"investigation", "fix">>
              [] taskType = "improvement" -> <<"refactor">>
              [] taskType = "testing" -> <<"testing">>
              [] taskType = "documentation" -> <<"documentation">>
              [] OTHER -> <<"general">>
    IN  /\ \A taskType \in TaskTypes :
              MiddleKinds(createTaskSteps(taskType)) = Template(taskType)
        /\ taskSteps # << >> =>
              \E taskType \in TaskTypes :
                 /\ MiddleKinds(taskSteps) = Template(taskType)
                 /\ [i \in 1..Len(taskSteps) |-> taskSteps[i].type]
                      = [i \in 1..Len(taskSteps) |-> createTaskSteps(taskType)[i].type]

\* the loop is checking the investigation step of a bugfix plan
C33_Witness ==
    /\ MiddleKinds(taskSteps) = <<"investigation", "fix">>
    /\ currentStepIndex = 1
    /\ pc = "test"

\* C34: a step whose kind is not one of the eight specific kinds (kind
\* 'general' included) is dispatched to the General handler: the CheckRunner's
\* test returns a record for it instead of failing on the kind.
C34_GeneralKindTested ==
    (testerExit # << >> /\ testerInput[1].step.type = "general")
        => testerExit[1].outcome = "returned"

\* C35: in any run of a bugfix plan driven by the controller, whenever the Fix
\* step is executed the executor's history already holds an Investigation
\* ExecutionRecord, so executeFix never fails with 'Correcao requer
\* investigacao previa'.
C35_FixAfterInvestigation ==
    /\ (pc = "execute" /\ currentStep.type = "fix")
          => findPreviousResults(executionHistory, "investigation") # << >>
    /\ error # "investigationRequired"

\* the Fix step of a bugfix plan has been executed
C35_Witness ==
    /\ pc = "test"
    /\ currentStep.type = "fix"
    /\ findPreviousResults(executionHistory, "fix") # << >>
    /\ findPreviousResults(executionHistory, "investigation") # << >>

\* the last record of a kind in the history, if any
LatestRecord(history, type) ==
    LET matches == {i \in 1..Len(history) : history[i].type = type}
    IN  IF matches = {} THEN << >>
        ELSE <<history[CHOOSE i \in matches : \A k \in matches : i >= k]>>

\* C36: when the Investigation step needed several attempts, the Fix step
\* builds its fix plan from the ExecutionRecord of the Investigation attempt
\* that was approved (the latest one), never from the record of an earlier
\* attempt: the record executeFix finds is the latest Investigation record.
C36_FixUsesApprovedInvestigation ==
    (pc = "execute" /\ currentStep.type = "fix")
        => findPreviousResults(executionHistory, "investigation")
              = LatestRecord(executionHistory, "investigation")

\* C37: handleWithRetry invokes the operation at most maxRetries + 1 times
\* for the chosen strategy, stops after the first failure for which
\* shouldRetry is false (exactly one invocation for an unknown strategy name),
\* returns the result of the first successful invocation, and otherwise throws
\* after having recorded each failed invocation exactly once in the error
\* history.
C37_HandleWithRetry ==
    /\ [](handlerInput # << >> =>
            LET in == handlerInput[1]
                failed == {k \in 1..invocations : in.out[k] # "ok"}
            IN  /\ invocations <= RetryStrategy(in.strategyName).maxRetries + 1
                /\ in.strategyName = "default" => invocations <= 1
                /\ Len(errorHistory) = Cardinality(failed)
                /\ \A k \in 1..Len(errorHistory) : errorHistory[k].attempt = k
                /\ handlerExit # << >> =>
                      IF handlerExit[1].outcome = "returned"
                      THEN /\ handlerExit[1].result = invocations
                           /\ failed = 1..(invocations - 1)
                      ELSE /\ failed = 1..invocations
                           /\ invocations >= 1
                           /\ handlerExit[1].attempts = invocations)
    /\ [][invocations' # invocations =>
            /\ invocations' = invocations + 1
            /\ \A k \in 1..invocations :
                  /\ handlerInput[1].out[k] # "ok"
                  /\ shouldRetry(handlerInput[1].strategyName, handlerInput[1].out[k])]_vars

\* the file strategy gave up after three failed invocations, each recorded
C37_Witness ==
    /\ handlerExit # << >>
    /\ handlerExit[1].outcome = "thrown"
    /\ handlerInput[1].strategyName = "file"
    /\ invocations = 3
    /\ Len(errorHistory) = 3

\* C38: validateMultipleSteps validates the steps in order and stops at the
\* first step that is not approved or whose validation throws: the returned
\* list is a prefix of the steps, every entry except possibly the last has
\* approved = true, and no step after the first non-approved one is validated.
C38_BatchStopsAtFirstFailure ==
    batchExit # << >> =>
        LET items == batchInput[1]
            validations == batchExit[1]
            n == Len(validations)
        IN  /\ n <= Len(items)
            /\ \A k \in 1..n : validations[k].stepId = items[k].input.step.id
            /\ \A k \in 1..(n - 1) : validations[k].approved
            /\ n < Len(items) => ~validations[n].approved
            /\ Len(validationHistory) <= n
            /\ \A k \in 1..Len(validationHistory) :
                  /\ validationHistory[k].stepId = items[k].input.step.id
                  /\ k < Len(validationHistory) => validationHistory[k].approved

\* the second of four steps was rejected: two validations are returned and
\* the last two steps were not validated
C38_Witness ==
    /\ batchExit # << >>
    /\ Len(batchInput[1]) = 4
    /\ Len(batchExit[1]) = 2
    /\ batchExit[1][1].approved
    /\ ~batchExit[1][2].approved
    /\ ~batchInput[1][2].throws
    /\ Len(validationHistory) = 2

\* C39: for every value of the MAX_RETRIES setting (unset, non-numeric, 0,
\* negative or positive) the controller's effective retry ceiling is an
\* integer >= 1, so the first attempt of every step is always executed.
C39_CeilingAtLeastOne == maxRetries >= 1

====
